---- MODULE Spec2Model ----
(***************************************************************************)
(* "Can You Pi?": the digit-recall game (game_logic.Game), its batch       *)
(* verification in the REST layer (backend/routes.py) and in the tool      *)
(* layer (mcp/server.py), the two game registries and the position quiz,   *)
(* the chat endpoints and the command-line game.                           *)
(*                                                                         *)
(* Strings are sequences of one-character strings, so that the Python      *)
(* string operations (replace, startswith, slicing, indexing, isdigit,     *)
(* lower) are computed and not assumed.  Python's None is the string       *)
(* "None" where the value is a string and the empty sequence <<>> where    *)
(* the value is an integer (<<n>> is the integer n).                       *)
(***************************************************************************)
EXTENDS Integers, Sequences, FiniteSets, TLC

VARIABLES
    games,          \* routes.games: game id -> Game
    mcp_games,      \* server.games: game id or quiz id -> Game
    decimal_games,  \* routes.decimal_games: quiz id -> DecimalGuessGame
    next_id,        \* number of ids uuid4() has issued so far
    quiz_log,       \* history: quiz id -> what its caller was told and has done
    resp,           \* the last request and the response it got
    threads,        \* the requests running check_input on one game at once
    conversations,  \* routes.conversations: conversation id -> list of messages
    GROQ_API_KEY,   \* whether the environment holds the key of the LLM provider
    cli             \* the command-line play loop and the Game it plays

vars == <<games, mcp_games, decimal_games, next_id, quiz_log, resp, threads,
          conversations, GROQ_API_KEY, cli>>

\* what the game and quiz requests and the racing threads leave alone
chat_and_cli == << conversations, GROQ_API_KEY, cli >>

-----------------------------------------------------------------------------
(* Bounds *)

\* number of decimals of Pi the digit source holds
PiLen == 10

\* most tool calls one completion of the LLM asks for
MaxToolCalls == 2

\* a conversation takes another message while it is shorter than this
MaxHistory == 5

\* most entries typed at the starting-position prompt
MaxEntries == 2

-----------------------------------------------------------------------------
(* The digit source *)

\* the first decimals of Pi, as assets/pi_decimals.txt starts
PiDigits ==
    << "1","4","1","5","9","2","6","5","3","5",
       "8","9","7","9","3","2","3","8","4","6" >>

PI_DECIMALS == SubSeq(PiDigits, 1, PiLen)

-----------------------------------------------------------------------------
(* Python string and sequence operations *)

DecimalDigits == {"0","1","2","3","4","5","6","7","8","9"}

\* characters str.isdigit() accepts that are no decimal digit ("²")
OtherDigits == {"sup2"}

\* str.isdigit() of a one-character string
IsDigitChar(c) == c \in DecimalDigits \cup OtherDigits

\* str.isdigit(): not empty and every character is a digit
isdigit(s) == Len(s) > 0 /\ \A i \in 1..Len(s) : IsDigitChar(s[i])

LowerChar(c) ==
    CASE c = "E" -> "e"
      [] c = "X" -> "x"
      [] c = "I" -> "i"
      [] c = "T" -> "t"
      [] c = "Q" -> "q"
      [] OTHER -> c

\* str.lower()
lower(s) == [i \in 1..Len(s) |-> LowerChar(s[i])]

\* str.replace(ch, "")
Remove(s, ch) == SelectSeq(s, LAMBDA c : c # ch)

\* s[i] for a 0-based Python index (negative indices count from the end)
IndexOk(s, i) == -Len(s) <= i /\ i < Len(s)
PyIndex(s, i) == IF i >= 0 THEN s[i + 1] ELSE s[Len(s) + i + 1]

Min(a, b) == IF a <= b THEN a ELSE b
Max(a, b) == IF a >= b THEN a ELSE b

\* a slice bound as Python clamps it
Clamp(s, i) == IF i < 0 THEN Max(Len(s) + i, 0) ELSE Min(i, Len(s))

\* s[a:b]
PySlice(s, a, b) == SubSeq(s, Clamp(s, a) + 1, Clamp(s, b))

\* Python's None, where the value is a string / an integer
None == "None"
NoInt == << >>
Int1(n) == << n >>

-----------------------------------------------------------------------------
(* game_logic.Game *)

NewGame == [current_index |-> 0, is_game_over |-> FALSE]

ExitWord == << "e", "x", "i", "t" >>

Returned(game, is_correct, expected_digit) ==
    [game |-> game, is_correct |-> is_correct,
     expected_digit |-> expected_digit, raised |-> FALSE]

\* pi_decimals[current_index] raises IndexError
Raised(game) ==
    [game |-> game, is_correct |-> None, expected_digit |-> None, raised |-> TRUE]

\* check_input with the cursor advanced before the comparison: a wrong digit
\* moves the cursor too
check_input_skips_wrong(game, user_input) ==
    IF lower(user_input) = ExitWord
    THEN Returned([game EXCEPT !.is_game_over = TRUE], None, None)
    ELSE IF ~isdigit(user_input)
    THEN Returned(game, None, None)
    ELSE IF ~IndexOk(PI_DECIMALS, game.current_index)
    THEN Raised(game)
    ELSE LET expected_digit == PyIndex(PI_DECIMALS, game.current_index)
             moved == [game EXCEPT !.current_index = @ + 1] IN
         IF user_input = << expected_digit >>
         THEN Returned(moved, "True", None)
         ELSE Returned([moved EXCEPT !.is_game_over = TRUE], "False", expected_digit)

\* check_input with a correct digit clearing is_game_over
check_input_reopens(game, user_input) ==
    IF lower(user_input) = ExitWord
    THEN Returned([game EXCEPT !.is_game_over = TRUE], None, None)
    ELSE IF ~isdigit(user_input)
    THEN Returned(game, None, None)
    ELSE IF ~IndexOk(PI_DECIMALS, game.current_index)
    THEN Raised(game)
    ELSE LET expected_digit == PyIndex(PI_DECIMALS, game.current_index) IN
         IF user_input = << expected_digit >>
         THEN Returned([current_index |-> game.current_index + 1,
                        is_game_over |-> FALSE], "True", None)
         ELSE Returned([game EXCEPT !.is_game_over = TRUE], "False", expected_digit)

\* check_input refusing every digit once the game is over
check_input_refuses_when_over(game, user_input) ==
    IF lower(user_input) = ExitWord
    THEN Returned([game EXCEPT !.is_game_over = TRUE], None, None)
    ELSE IF ~isdigit(user_input)
    THEN Returned(game, None, None)
    ELSE IF ~IndexOk(PI_DECIMALS, game.current_index)
    THEN Raised(game)
    ELSE LET expected_digit == PyIndex(PI_DECIMALS, game.current_index) IN
         IF user_input = << expected_digit >> /\ ~game.is_game_over
         THEN Returned([game EXCEPT !.current_index = @ + 1], "True", None)
         ELSE Returned([game EXCEPT !.is_game_over = TRUE], "False", expected_digit)

\* check_input with a wrong digit not ending the game
check_input_keeps_playing(game, user_input) ==
    IF lower(user_input) = ExitWord
    THEN Returned([game EXCEPT !.is_game_over = TRUE], None, None)
    ELSE IF ~isdigit(user_input)
    THEN Returned(game, None, None)
    ELSE IF ~IndexOk(PI_DECIMALS, game.current_index)
    THEN Raised(game)
    ELSE LET expected_digit == PyIndex(PI_DECIMALS, game.current_index) IN
         IF user_input = << expected_digit >>
         THEN Returned([game EXCEPT !.current_index = @ + 1], "True", None)
         ELSE Returned(game, "False", expected_digit)

\* Game.check_input: is_correct is "True", "False" or None
check_input(game, user_input) ==
    IF lower(user_input) = ExitWord
    THEN Returned([game EXCEPT !.is_game_over = TRUE], None, None)
    ELSE IF ~isdigit(user_input)
    THEN Returned(game, None, None)
    ELSE IF ~IndexOk(PI_DECIMALS, game.current_index)
    THEN Raised(game)
    ELSE LET expected_digit == PyIndex(PI_DECIMALS, game.current_index) IN
         IF user_input = << expected_digit >>
         THEN Returned([game EXCEPT !.current_index = @ + 1], "True", None)
         ELSE Returned([game EXCEPT !.is_game_over = TRUE], "False", expected_digit)

\* the exit keywords of Game.is_exit
ExitTokens == { ExitWord, << "q" >> }

\* Game.is_exit: marks the game over when the input is an exit keyword
is_exit(game, user_input) ==
    IF lower(user_input) \in ExitTokens
    THEN [game |-> [game EXCEPT !.is_game_over = TRUE], result |-> TRUE]
    ELSE [game |-> game, result |-> FALSE]

\* Game.is_valid_input: exactly one character, a decimal digit
is_valid_input(user_input) ==
    Len(user_input) = 1 /\ user_input[1] \in DecimalDigits

\* game.pi_decimals: every Game holds the one PI_DECIMALS
game_pi_decimals(game) == PI_DECIMALS

\* Game.is_complete
is_complete(game) == game.current_index >= Len(PI_DECIMALS)

-----------------------------------------------------------------------------
(* Batch verification: what both layers share *)

\* clean_sequence without the removal of the leading "3"
clean_sequence_keeps_3(sequence) == Remove(Remove(sequence, " "), ".")

\* clean_sequence without the removal of "."
clean_sequence_keeps_dot(sequence) ==
    LET stripped == Remove(sequence, " ") IN
    IF Len(stripped) > 0 /\ stripped[1] = "3" THEN Tail(stripped) ELSE stripped

\* sequence.replace(" ", "").replace(".", ""), then one leading "3" removed
clean_sequence(sequence) ==
    LET stripped == Remove(Remove(sequence, " "), ".") IN
    IF Len(stripped) > 0 /\ stripped[1] = "3" THEN Tail(stripped) ELSE stripped

\* len([d for d in clean_sequence if d.isdigit()])
CountDigits(s) == Len(SelectSeq(s, IsDigitChar))

\* the response of a verify call; calls counts the check_input calls it made
VerifyOut(kind, digits_checked, correct_count, all_correct, wrong_at_position, expected_digit, got_digit, current_score, calls) ==
    [kind |-> kind, digits_checked |-> digits_checked,
     correct_count |-> correct_count, all_correct |-> all_correct,
     wrong_at_position |-> wrong_at_position, expected_digit |-> expected_digit,
     got_digit |-> got_digit, current_score |-> current_score, calls |-> calls]

\* HTTP 404 / {"error": "Game not found..."}
NotFound == [kind |-> "not_found"]

\* HTTP 400 "No digits provided" / {"error": "No digits provided"}
NoDigits == [kind |-> "no_digits"]

\* an exception left the handler
Failed(calls) == [kind |-> "exception", calls |-> calls]

-----------------------------------------------------------------------------
(* routes.verify_sequence *)

\* the response built at the first wrong digit
RestWrong(game, i, digit, correct_count, expected_digit, calls) ==
    LET first_wrong_position == game.current_index - 1 IN
    VerifyOut("wrong", i + 1, correct_count, FALSE,
              Int1(first_wrong_position + 1), expected_digit, digit,
              game.current_index, calls)

\* the response built when the loop ends
RestAllCorrect(game, clean, correct_count, calls) ==
    VerifyOut("all_correct", CountDigits(clean), correct_count, TRUE,
              NoInt, None, None, game.current_index, calls)

RECURSIVE rest_verify_loop_no_stop(_, _, _, _, _)
\* the loop without the return at the first wrong digit
rest_verify_loop_no_stop(game, clean, i, correct_count, calls) ==
    IF i >= Len(clean)
    THEN [game |-> game, out |-> RestAllCorrect(game, clean, correct_count, calls)]
    ELSE LET digit == clean[i + 1] IN
         IF ~IsDigitChar(digit)
         THEN rest_verify_loop_no_stop(game, clean, i + 1, correct_count, calls)
         ELSE LET r == check_input(game, << digit >>) IN
              IF r.raised
              THEN [game |-> r.game, out |-> Failed(calls + 1)]
              ELSE rest_verify_loop_no_stop(
                       r.game, clean, i + 1,
                       IF r.is_correct = "True" THEN correct_count + 1
                       ELSE correct_count,
                       calls + 1)

RECURSIVE rest_verify_loop(_, _, _, _, _)
\* for i, digit in enumerate(clean_sequence), from index i on
rest_verify_loop(game, clean, i, correct_count, calls) ==
    IF i >= Len(clean)
    THEN [game |-> game, out |-> RestAllCorrect(game, clean, correct_count, calls)]
    ELSE LET digit == clean[i + 1] IN
         IF ~IsDigitChar(digit)
         THEN rest_verify_loop(game, clean, i + 1, correct_count, calls)
         ELSE LET r == check_input(game, << digit >>) IN
              IF r.raised
              THEN [game |-> r.game, out |-> Failed(calls + 1)]
              ELSE IF r.is_correct = "True"
              THEN rest_verify_loop(r.game, clean, i + 1, correct_count + 1, calls + 1)
              ELSE [game |-> r.game,
                    out |-> RestWrong(r.game, i, digit, correct_count,
                                      r.expected_digit, calls + 1)]

\* verify_sequence without the check for an empty cleaned sequence
verify_sequence_no_empty_check(game, sequence) ==
    rest_verify_loop(game, clean_sequence(sequence), 0, 0, 0)

\* verify_sequence on a game that was found
verify_sequence(game, sequence) ==
    LET clean == clean_sequence(sequence) IN
    IF Len(clean) = 0
    THEN [game |-> game, out |-> NoDigits]
    ELSE rest_verify_loop(game, clean, 0, 0, 0)

-----------------------------------------------------------------------------
(* server.verify_pi_sequence *)

\* the response built at the first wrong digit
McpWrong(game, results, digit, correct_count, expected_digit, calls) ==
    LET position == game.current_index
        first_wrong_position == position IN
    VerifyOut("wrong", results, correct_count, FALSE,
              Int1(first_wrong_position + 1), expected_digit, digit,
              game.current_index, calls)

\* the response built when the loop ends
McpAllCorrect(game, results, correct_count, calls) ==
    VerifyOut("all_correct", results, correct_count, TRUE,
              NoInt, None, None, game.current_index, calls)

RECURSIVE mcp_verify_loop(_, _, _, _, _, _)
\* for i, digit in enumerate(clean_sequence), from index i on;
\* results is len(results)
mcp_verify_loop(game, clean, i, results, correct_count, calls) ==
    IF i >= Len(clean)
    THEN [game |-> game, out |-> McpAllCorrect(game, results, correct_count, calls)]
    ELSE LET digit == clean[i + 1] IN
         IF ~IsDigitChar(digit)
         THEN mcp_verify_loop(game, clean, i + 1, results, correct_count, calls)
         ELSE LET r == check_input(game, << digit >>) IN
              IF r.raised
              THEN [game |-> r.game, out |-> Failed(calls + 1)]
              ELSE IF r.is_correct = "True"
              THEN mcp_verify_loop(r.game, clean, i + 1, results + 1,
                                   correct_count + 1, calls + 1)
              ELSE [game |-> r.game,
                    out |-> McpWrong(r.game, results + 1, digit, correct_count,
                                     r.expected_digit, calls + 1)]

\* verify_pi_sequence checking against a new Game instead of the stored one
verify_pi_sequence_new_game(game, sequence) ==
    LET clean == clean_sequence(sequence) IN
    IF Len(clean) = 0
    THEN [game |-> game, out |-> NoDigits]
    ELSE mcp_verify_loop(NewGame, clean, 0, 0, 0, 0)

\* verify_pi_sequence on a game that was found
verify_pi_sequence(game, sequence) ==
    LET clean == clean_sequence(sequence) IN
    IF Len(clean) = 0
    THEN [game |-> game, out |-> NoDigits]
    ELSE mcp_verify_loop(game, clean, 0, 0, 0, 0)

-----------------------------------------------------------------------------
(* routes.play_turn, get_game_status, get_hint; server.get_pi_hint,        *)
(* get_game_status, on a game that was found                               *)

PlayOut(kind, correct, expected_digit, game) ==
    [kind |-> kind, correct |-> correct, expected_digit |-> expected_digit,
     current_index |-> game.current_index,
     game_over |-> IF kind = "result" THEN game.is_game_over ELSE TRUE]

\* HTTP 400 "Input must be a single digit"
InvalidInput == [kind |-> "invalid"]

\* play_turn without the is_exit check
play_turn_no_exit(game, user_input) ==
    IF ~is_valid_input(user_input)
    THEN [game |-> game, out |-> InvalidInput]
    ELSE LET r == check_input(game, user_input) IN
         IF r.raised
         THEN [game |-> r.game, out |-> Failed(1)]
         ELSE IF is_complete(r.game)
         THEN [game |-> r.game, out |-> PlayOut("complete", "True", None, r.game)]
         ELSE [game |-> r.game,
               out |-> PlayOut("result", r.is_correct, r.expected_digit, r.game)]

\* play_turn without the is_valid_input check
play_turn_no_validation(game, user_input) ==
    LET e == is_exit(game, user_input) IN
    IF e.result
    THEN [game |-> e.game, out |-> PlayOut("exit", "False", None, e.game)]
    ELSE LET r == check_input(game, user_input) IN
         IF r.raised
         THEN [game |-> r.game, out |-> Failed(1)]
         ELSE IF is_complete(r.game)
         THEN [game |-> r.game, out |-> PlayOut("complete", "True", None, r.game)]
         ELSE [game |-> r.game,
               out |-> PlayOut("result", r.is_correct, r.expected_digit, r.game)]

play_turn(game, user_input) ==
    LET e == is_exit(game, user_input) IN
    IF e.result
    THEN [game |-> e.game, out |-> PlayOut("exit", "False", None, e.game)]
    ELSE IF ~is_valid_input(user_input)
    THEN [game |-> game, out |-> InvalidInput]
    ELSE LET r == check_input(game, user_input) IN
         IF r.raised
         THEN [game |-> r.game, out |-> Failed(1)]
         ELSE IF is_complete(r.game)
         THEN [game |-> r.game, out |-> PlayOut("complete", "True", None, r.game)]
         ELSE [game |-> r.game,
               out |-> PlayOut("result", r.is_correct, r.expected_digit, r.game)]

\* GameStatusResponse / the dictionary of server.get_game_status
game_status(game) ==
    [kind |-> "status",
     current_position |-> game.current_index + 1,
     score |-> game.current_index,
     sequence_so_far |-> PySlice(PI_DECIMALS, 0, game.current_index),
     next_10_digits |-> PySlice(PI_DECIMALS, game.current_index,
                                game.current_index + 10),
     total_digits_available |-> Len(PI_DECIMALS)]

\* the next count digits, from the cursor
HintOut(game, count) ==
    LET start == game.current_index
        end == Min(start + count, Len(PI_DECIMALS))
        next_digits == PySlice(PI_DECIMALS, start, end) IN
    [kind |-> "hint", hint |-> next_digits, start_position |-> start + 1,
     count |-> Len(next_digits)]

\* HTTP 400 "You've completed all digits!" / {"message": ...}
Completed == [kind |-> "completed"]

\* HTTP 400 "Count must be at least 1"
BadCount == [kind |-> "bad_count"]

get_hint(game, count) ==
    IF is_complete(game) THEN Completed
    ELSE IF count < 1 THEN BadCount
    ELSE HintOut(game, count)

get_pi_hint(game, count) ==
    IF is_complete(game) THEN Completed ELSE HintOut(game, count)

-----------------------------------------------------------------------------
(* Requests *)

\* the ids uuid4() issues, in the order it issues them: one session per
\* behaviour, started in either layer; requests on it before its start and
\* after its end, and requests of the other layer, find nothing
Ids == { 1 }

S_3_14159 == << "3", ".", "1", "4", "1", "5", "9" >>
S_99999 == << "9", "9", "9", "9", "9" >>
S_1415 == << "1", "4", "1", "5" >>
S_9265 == << "9", "2", "6", "5" >>
S_3_1_4_1_5 == << "3", ".", "1", " ", "4", " ", "1", " ", "5" >>
S_3141_5 == << "3", "1", "4", "1", " ", "5" >>
S_31415 == << "3", "1", "4", "1", "5" >>

\* the sequences the claims name
NamedSequences ==
    { S_3_14159, S_99999, S_1415, S_9265, S_3_1_4_1_5, S_3141_5, S_31415 }

\* every run of consecutive decimals of Pi
PiRuns ==
    { SubSeq(PI_DECIMALS, a, b) : a \in 1..PiLen, b \in 1..PiLen } \ { << >> }

\* sequences that are empty once cleaned, and sequences with other characters
OddSequences ==
    { << >>, << " " >>, << "3" >>, << "3", "." >>,
      << "1", "a", "4" >>, << "a", "3", "5" >>, << "1", "4", "2", "5" >>,
      << "sup2" >>, << "1", "4", "1", "5", "9", "2", "6", "5", "5", "5" >>,
      << "a", "3", "1", "4" >>, << "3", "1", "4" >>, << " ", "." >> }

VerifyInputs == NamedSequences \cup PiRuns \cup OddSequences

PlayInputs ==
    { << d >> : d \in DecimalDigits } \cup
    { ExitWord, << "E", "x", "i", "t" >>, << "q" >>, << "Q" >>,
      << >>, << "a" >>, << "1", "4" >>, << "sup2" >> }

\* StartGameRequest.mode: 1 standard, 2 custom, anything else
RestModes == { 1, 2, 3 }

\* start_pi_game's mode
McpModes == { "standard", "custom", "other" }

StartPositions == 0..(PiLen + 2)

HintCounts == { -1, 0, 1, 3, PiLen + 1 }

Request(op, layer, id, input, found, pre, out) ==
    [op |-> op, layer |-> layer, id |-> id, input |-> input,
     found |-> found, pre |-> pre, out |-> out]

NoRequest == Request("none", "none", 0, << >>, FALSE, NewGame, [kind |-> "none"])

\* the two request threads of the worker pool that serve one game at once
Threads == { 1, 2 }

\* a thread inside Game.check_input: where it is (pc), its argument, the
\* cursor it read and the digit it found there, the cursor it loaded for the
\* increment, and the game as it was when the request was accepted
Thread(pc, user_input, index, expected_digit, loaded, pre) ==
    [pc |-> pc, user_input |-> user_input, index |-> index,
     expected_digit |-> expected_digit, loaded |-> loaded, pre |-> pre]

IdleThread == Thread("idle", None, 0, None, 0, NewGame)

\* the command-line loop: where it is (pc), the Game it plays, the cursor the
\* loop was entered with, how many times it has called check_input, the game
\* as the last of these calls found it, whether that call raised, and whether
\* the completion message was printed
Cli(pc, game, entered, checks, checked, raised, congratulated) ==
    [pc |-> pc, game |-> game, entered |-> entered, checks |-> checks,
     checked |-> checked, raised |-> raised, congratulated |-> congratulated]

\* no command-line game has been started
CliOff == Cli("off", NewGame, 0, 0, NewGame, FALSE, FALSE)

Init ==
    /\ games = << >>
    /\ mcp_games = << >>
    /\ decimal_games = << >>
    /\ next_id = 0
    /\ quiz_log = << >>
    /\ resp = NoRequest
    /\ threads = [t \in Threads |-> IdleThread]
    /\ conversations = << >>
    /\ GROQ_API_KEY = TRUE
    /\ cli = CliOff

\* d[k] = v that sets every entry
Put_everywhere(d, k, v) == [x \in DOMAIN d \cup {k} |-> v]

\* d[k] = v added to a dictionary
Put(d, k, v) == [x \in DOMAIN d \cup {k} |-> IF x = k THEN v ELSE d[x]]

\* del d[k] that removes nothing
Del_keeps(d, k) == d

\* del d[k]
Del(d, k) == [x \in DOMAIN d \ {k} |-> d[x]]

-----------------------------------------------------------------------------
(* REST game endpoints *)

start_game_keeps_position ==
    \E mode \in RestModes, start_position \in StartPositions :
        LET game == [NewGame EXCEPT !.current_index = start_position - 1]
            game_id == next_id + 1 IN
        /\ next_id + 1 \in Ids
        /\ next_id' = game_id
        /\ games' = Put(games, game_id, game)
        /\ resp' = Request("start", "rest", game_id, << mode, start_position >>,
                           FALSE, NewGame,
                           [kind |-> "started",
                            mode |-> IF mode = 2 THEN "custom" ELSE "standard",
                            current_position |-> game.current_index + 1])
        /\ UNCHANGED << chat_and_cli, threads, mcp_games, decimal_games, quiz_log >>

\* POST /start
start_game ==
    \E mode \in RestModes, start_position \in StartPositions :
        LET game == IF mode = 2
                    THEN [NewGame EXCEPT !.current_index = start_position - 1]
                    ELSE NewGame
            game_id == next_id + 1 IN
        /\ next_id + 1 \in Ids
        /\ next_id' = game_id
        /\ games' = Put(games, game_id, game)
        /\ resp' = Request("start", "rest", game_id, << mode, start_position >>,
                           FALSE, NewGame,
                           [kind |-> "started",
                            mode |-> IF mode = 2 THEN "custom" ELSE "standard",
                            current_position |-> game.current_index + 1])
        /\ UNCHANGED << chat_and_cli, threads, mcp_games, decimal_games, quiz_log >>

\* POST /game/{game_id}/play
PlayTurn ==
    \E game_id \in Ids, user_input \in PlayInputs :
        /\ IF game_id \in DOMAIN games
           THEN LET r == play_turn(games[game_id], user_input) IN
                /\ games' = [games EXCEPT ![game_id] = r.game]
                /\ resp' = Request("play", "rest", game_id, user_input, TRUE,
                                   games[game_id], r.out)
           ELSE /\ games' = games
                /\ resp' = Request("play", "rest", game_id, user_input, FALSE,
                                   NewGame, NotFound)
        /\ UNCHANGED << chat_and_cli, threads, mcp_games, decimal_games, next_id, quiz_log >>

\* POST /game/{game_id}/verify
VerifySequence ==
    \E game_id \in Ids, sequence \in VerifyInputs :
        /\ IF game_id \in DOMAIN games
           THEN LET r == verify_sequence(games[game_id], sequence) IN
                /\ games' = [games EXCEPT ![game_id] = r.game]
                /\ resp' = Request("verify", "rest", game_id, sequence, TRUE,
                                   games[game_id], r.out)
           ELSE /\ games' = games
                /\ resp' = Request("verify", "rest", game_id, sequence, FALSE,
                                   NewGame, NotFound)
        /\ UNCHANGED << chat_and_cli, threads, mcp_games, decimal_games, next_id, quiz_log >>

\* GET /game/{game_id}/status
GetGameStatus ==
    \E game_id \in Ids :
        /\ resp' = IF game_id \in DOMAIN games
                   THEN Request("status", "rest", game_id, << >>, TRUE,
                                games[game_id], game_status(games[game_id]))
                   ELSE Request("status", "rest", game_id, << >>, FALSE,
                                NewGame, NotFound)
        /\ UNCHANGED << chat_and_cli, threads, games, mcp_games, decimal_games, next_id, quiz_log >>

\* GET /game/{game_id}/hint?count=
GetHint ==
    \E game_id \in Ids, count \in HintCounts :
        /\ resp' = IF game_id \in DOMAIN games
                   THEN Request("hint", "rest", game_id, << count >>, TRUE,
                                games[game_id], get_hint(games[game_id], count))
                   ELSE Request("hint", "rest", game_id, << count >>, FALSE,
                                NewGame, NotFound)
        /\ UNCHANGED << chat_and_cli, threads, games, mcp_games, decimal_games, next_id, quiz_log >>

\* DELETE /game/{game_id}
EndGame ==
    \E game_id \in Ids :
        /\ IF game_id \in DOMAIN games
           THEN /\ games' = Del(games, game_id)
                /\ resp' = Request("end", "rest", game_id, << >>, TRUE,
                                   games[game_id],
                                   [kind |-> "ended",
                                    final_score |-> games[game_id].current_index])
           ELSE /\ games' = games
                /\ resp' = Request("end", "rest", game_id, << >>, FALSE,
                                   NewGame, NotFound)
        /\ UNCHANGED << chat_and_cli, threads, mcp_games, decimal_games, next_id, quiz_log >>

RestNext ==
    \/ start_game
    \/ PlayTurn
    \/ VerifySequence
    \/ GetGameStatus
    \/ GetHint
    \/ EndGame

-----------------------------------------------------------------------------
(* Tool layer: the game tools of mcp/server.py *)

\* start_pi_game
start_pi_game ==
    \E mode \in McpModes, start_position \in StartPositions :
        LET game == IF mode = "custom"
                    THEN [NewGame EXCEPT !.current_index = start_position - 1]
                    ELSE NewGame
            game_id == next_id + 1 IN
        /\ next_id + 1 \in Ids
        /\ next_id' = game_id
        /\ mcp_games' = Put(mcp_games, game_id, game)
        /\ resp' = Request("start", "mcp", game_id, << mode, start_position >>,
                           FALSE, NewGame,
                           [kind |-> "started", mode |-> mode,
                            current_position |-> game.current_index + 1])
        /\ UNCHANGED << chat_and_cli, threads, games, decimal_games, quiz_log >>

\* verify_pi_sequence
VerifyPiSequence ==
    \E game_id \in Ids, sequence \in VerifyInputs :
        /\ IF game_id \in DOMAIN mcp_games
           THEN LET r == verify_pi_sequence(mcp_games[game_id], sequence) IN
                /\ mcp_games' = [mcp_games EXCEPT ![game_id] = r.game]
                /\ resp' = Request("verify", "mcp", game_id, sequence, TRUE,
                                   mcp_games[game_id], r.out)
           ELSE /\ mcp_games' = mcp_games
                /\ resp' = Request("verify", "mcp", game_id, sequence, FALSE,
                                   NewGame, NotFound)
        /\ UNCHANGED << chat_and_cli, threads, games, decimal_games, next_id, quiz_log >>

\* get_game_status
McpGetGameStatus ==
    \E game_id \in Ids :
        /\ resp' = IF game_id \in DOMAIN mcp_games
                   THEN Request("status", "mcp", game_id, << >>, TRUE,
                                mcp_games[game_id],
                                game_status(mcp_games[game_id]))
                   ELSE Request("status", "mcp", game_id, << >>, FALSE,
                                NewGame, NotFound)
        /\ UNCHANGED << chat_and_cli, threads, games, mcp_games, decimal_games, next_id, quiz_log >>

\* get_pi_hint
GetPiHint ==
    \E game_id \in Ids, count \in HintCounts :
        /\ resp' = IF game_id \in DOMAIN mcp_games
                   THEN Request("hint", "mcp", game_id, << count >>, TRUE,
                                mcp_games[game_id],
                                get_pi_hint(mcp_games[game_id], count))
                   ELSE Request("hint", "mcp", game_id, << count >>, FALSE,
                                NewGame, NotFound)
        /\ UNCHANGED << chat_and_cli, threads, games, mcp_games, decimal_games, next_id, quiz_log >>

\* end_game
McpEndGame ==
    \E game_id \in Ids :
        /\ IF game_id \in DOMAIN mcp_games
           THEN /\ mcp_games' = Del(mcp_games, game_id)
                /\ resp' = Request("end", "mcp", game_id, << >>, TRUE,
                                   mcp_games[game_id],
                                   [kind |-> "ended",
                                    final_score |-> mcp_games[game_id].current_index])
           ELSE /\ mcp_games' = mcp_games
                /\ resp' = Request("end", "mcp", game_id, << >>, FALSE,
                                   NewGame, NotFound)
        /\ UNCHANGED << chat_and_cli, threads, games, decimal_games, next_id, quiz_log >>

McpNext ==
    \/ start_pi_game
    \/ VerifyPiSequence
    \/ McpGetGameStatus
    \/ GetPiHint
    \/ McpEndGame

\* the game requests of both layers
Next == RestNext \/ McpNext

Spec == Init /\ [][Next]_vars

-----------------------------------------------------------------------------
(* The position quiz *)

\* routes.DecimalGuessGame
DecimalGuessGame(position, expected_digit) ==
    [position |-> position, expected_digit |-> expected_digit, is_done |-> FALSE]

\* StartQuizRequest.position / guess_pi_position's position: None or an integer
QuizPositions == { NoInt } \cup { Int1(p) : p \in 0..(PiLen + 1) }

\* max_position
MaxPositions == { 0, 1, PiLen, PiLen + 2 }

\* the guess of a check request
QuizGuesses ==
    { << d >> : d \in { "1", "4", "5", "9" } } \cup
    { << >>, << "a" >>, << "1", "4" >>, << "sup2" >> }

\* the position argument of the tool check_position_guess
CheckPositions == 0..(PiLen + 1)

\* the positions random.randint(1, max_position) can return (none: ValueError)
RandInt(max_position) == 1..max_position

\* the positions a start request can end up with
DrawnPositions(position, max_position) ==
    IF position = NoInt THEN RandInt(max_position) ELSE { position[1] }

\* HTTP 400 "Position out of range" / {"error": "Position out of range..."}
OutOfRange == [kind |-> "out_of_range"]

\* HTTP 400 "Quiz already completed"
AlreadyCompleted == [kind |-> "already_completed"]

\* HTTP 400 / {"error": "Guess must be a single digit (0-9)"}
BadGuess == [kind |-> "bad_guess"]

PositionOk(position) == ~(position < 1 \/ position > Len(PI_DECIMALS))

QuizStarted(position) == [kind |-> "quiz_started", position |-> position]

GuessOut(position, guess, correct, expected_digit) ==
    [kind |-> "checked", position |-> position, guess |-> guess,
     correct |-> correct, expected_digit |-> expected_digit]

\* what is remembered of a quiz: the position its caller was told, and whether
\* a check of a guess has been answered with a result
QuizLog(layer, position) ==
    [layer |-> layer, position |-> position, answered |-> FALSE]

NoQuiz == QuizLog("none", 0)

Answered(log, quiz_id, out) ==
    IF out.kind = "checked"
    THEN [log EXCEPT ![quiz_id].answered = TRUE]
    ELSE log

\* POST /quiz/start
start_position_quiz ==
    \E position \in QuizPositions, max_position \in MaxPositions :
        LET input == << position, max_position >> IN
        IF DrawnPositions(position, max_position) = {}
        THEN /\ resp' = Request("quiz_start", "rest", 0, input, FALSE, NoQuiz,
                                Failed(0))
             /\ UNCHANGED << chat_and_cli, threads, games, mcp_games, decimal_games, next_id, quiz_log >>
        ELSE \E p \in DrawnPositions(position, max_position) :
             IF ~PositionOk(p)
             THEN /\ resp' = Request("quiz_start", "rest", 0, input, FALSE,
                                     NoQuiz, OutOfRange)
                  /\ UNCHANGED << chat_and_cli, threads, games, mcp_games, decimal_games, next_id,
                                  quiz_log >>
             ELSE LET expected_digit == PyIndex(PI_DECIMALS, p - 1)
                      quiz_id == next_id + 1 IN
                  /\ next_id + 1 \in Ids
                  /\ next_id' = quiz_id
                  /\ decimal_games' =
                         Put(decimal_games, quiz_id,
                             DecimalGuessGame(p, expected_digit))
                  /\ quiz_log' = Put(quiz_log, quiz_id, QuizLog("rest", p))
                  /\ resp' = Request("quiz_start", "rest", quiz_id, input,
                                     FALSE, NoQuiz, QuizStarted(p))
                  /\ UNCHANGED << chat_and_cli, threads, games, mcp_games >>

\* routes.check_position_guess on a quiz that was found
check_position_guess(quiz, guess) ==
    IF quiz.is_done
    THEN [quiz |-> quiz, out |-> AlreadyCompleted]
    ELSE IF ~isdigit(guess) \/ Len(guess) # 1
    THEN [quiz |-> quiz, out |-> BadGuess]
    ELSE LET done == [quiz EXCEPT !.is_done = TRUE] IN
         IF guess = << quiz.expected_digit >>
         THEN [quiz |-> done,
               out |-> GuessOut(quiz.position, guess, TRUE, None)]
         ELSE [quiz |-> done,
               out |-> GuessOut(quiz.position, guess, FALSE, quiz.expected_digit)]

\* POST /quiz/{quiz_id}/check
CheckPositionGuess ==
    \E quiz_id \in Ids, guess \in QuizGuesses :
        /\ IF quiz_id \in DOMAIN decimal_games
           THEN LET r == check_position_guess(decimal_games[quiz_id], guess) IN
                /\ decimal_games' = [decimal_games EXCEPT ![quiz_id] = r.quiz]
                /\ quiz_log' = Answered(quiz_log, quiz_id, r.out)
                /\ resp' = Request("quiz_check", "rest", quiz_id, << guess >>,
                                   TRUE, quiz_log[quiz_id], r.out)
           ELSE /\ UNCHANGED << decimal_games, quiz_log >>
                /\ resp' = Request("quiz_check", "rest", quiz_id, << guess >>,
                                   FALSE, NoQuiz, NotFound)
        /\ UNCHANGED << chat_and_cli, threads, games, mcp_games, next_id >>

\* guess_pi_position
guess_pi_position ==
    \E position \in QuizPositions, max_position \in MaxPositions :
        LET input == << position, max_position >>
            game == NewGame IN
        IF DrawnPositions(position, max_position) = {}
        THEN /\ resp' = Request("quiz_start", "mcp", 0, input, FALSE, NoQuiz,
                                Failed(0))
             /\ UNCHANGED << chat_and_cli, threads, games, mcp_games, decimal_games, next_id, quiz_log >>
        ELSE \E p \in DrawnPositions(position, max_position) :
             IF ~PositionOk(p)
             THEN /\ resp' = Request("quiz_start", "mcp", 0, input, FALSE,
                                     NoQuiz, OutOfRange)
                  /\ UNCHANGED << chat_and_cli, threads, games, mcp_games, decimal_games, next_id,
                                  quiz_log >>
             ELSE LET quiz_id == next_id + 1 IN
                  /\ next_id + 1 \in Ids
                  /\ next_id' = quiz_id
                  /\ mcp_games' = Put(mcp_games, quiz_id, game)
                  /\ quiz_log' = Put(quiz_log, quiz_id, QuizLog("mcp", p))
                  /\ resp' = Request("quiz_start", "mcp", quiz_id, input,
                                     FALSE, NoQuiz, QuizStarted(p))
                  /\ UNCHANGED << chat_and_cli, threads, games, decimal_games >>

\* server.check_position_guess on an id that was found in games
mcp_check_position_guess(game, guess, position) ==
    IF ~isdigit(guess) \/ Len(guess) # 1
    THEN BadGuess
    ELSE IF ~IndexOk(game_pi_decimals(game), position - 1)
    THEN Failed(0)
    ELSE LET expected_digit == PyIndex(game_pi_decimals(game), position - 1)
             is_correct == (guess = << expected_digit >>) IN
         IF is_correct
         THEN GuessOut(position, guess, TRUE, None)
         ELSE GuessOut(position, guess, FALSE, expected_digit)

\* check_position_guess
McpCheckPositionGuess ==
    \E quiz_id \in Ids, guess \in QuizGuesses, position \in CheckPositions :
        /\ IF quiz_id \in DOMAIN mcp_games
           THEN LET out == mcp_check_position_guess(mcp_games[quiz_id], guess,
                                                    position)
                    log == IF quiz_id \in DOMAIN quiz_log
                           THEN quiz_log[quiz_id] ELSE NoQuiz IN
                /\ quiz_log' = IF quiz_id \in DOMAIN quiz_log
                               THEN Answered(quiz_log, quiz_id, out)
                               ELSE quiz_log
                /\ resp' = Request("quiz_check", "mcp", quiz_id,
                                   << guess, position >>, TRUE, log, out)
           ELSE /\ UNCHANGED quiz_log
                /\ resp' = Request("quiz_check", "mcp", quiz_id,
                                   << guess, position >>, FALSE, NoQuiz, NotFound)
        /\ UNCHANGED << chat_and_cli, threads, games, mcp_games, decimal_games, next_id >>

QuizNext ==
    \/ start_position_quiz
    \/ CheckPositionGuess
    \/ guess_pi_position
    \/ McpCheckPositionGuess

SpecQuiz == Init /\ [][QuizNext]_vars

-----------------------------------------------------------------------------
(* Two play requests on one game, served by two threads: play_turn is a     *)
(* plain def, which the framework runs in its thread pool, and check_input  *)
(* takes no lock, so the threads interleave between its statements and      *)
(* between the load and the store of "self.current_index += 1"              *)

\* the game both requests address
RaceId == 1

\* two play requests for the same game are accepted, each with one digit:
\* both found the game, is_exit and is_valid_input let the digit through, and
\* check_input has passed its 'exit' and isdigit tests
RacePlays ==
    \E first \in DecimalDigits, second \in DecimalDigits :
        /\ RaceId \in DOMAIN games
        /\ \A t \in Threads : threads[t].pc = "idle"
        /\ threads' =
               [t \in Threads |->
                   Thread("read", IF t = 1 THEN first ELSE second, 0, None, 0,
                          games[RaceId])]
        /\ UNCHANGED << chat_and_cli, games, mcp_games, decimal_games, next_id, quiz_log, resp >>

\* expected_digit = self.pi_decimals[self.current_index]
ReadExpected(t) ==
    /\ threads[t].pc = "read"
    /\ LET index == games[RaceId].current_index IN
       threads' =
           [threads EXCEPT ![t] =
               IF ~IndexOk(PI_DECIMALS, index)
               THEN [@ EXCEPT !.pc = "raised", !.index = index]
               ELSE [@ EXCEPT !.pc = "compare", !.index = index,
                              !.expected_digit = PyIndex(PI_DECIMALS, index)]]
    /\ UNCHANGED << chat_and_cli, games, mcp_games, decimal_games, next_id, quiz_log, resp >>

\* if user_input == expected_digit
Compare(t) ==
    /\ threads[t].pc = "compare"
    /\ threads' =
           [threads EXCEPT ![t].pc =
               IF threads[t].user_input = threads[t].expected_digit
               THEN "load" ELSE "set_over"]
    /\ UNCHANGED << chat_and_cli, games, mcp_games, decimal_games, next_id, quiz_log, resp >>

\* self.current_index += 1: the load of self.current_index
Load(t) ==
    /\ threads[t].pc = "load"
    /\ threads' = [threads EXCEPT ![t].pc = "store",
                                  ![t].loaded = games[RaceId].current_index]
    /\ UNCHANGED << chat_and_cli, games, mcp_games, decimal_games, next_id, quiz_log, resp >>

\* self.current_index += 1: the store of the sum; return True, None
Store(t) ==
    /\ threads[t].pc = "store"
    /\ games' = [games EXCEPT ![RaceId].current_index = threads[t].loaded + 1]
    /\ threads' = [threads EXCEPT ![t].pc = "returned"]
    /\ UNCHANGED << chat_and_cli, mcp_games, decimal_games, next_id, quiz_log, resp >>

\* self.is_game_over = True; return False, expected_digit
SetOver(t) ==
    /\ threads[t].pc = "set_over"
    /\ games' = [games EXCEPT ![RaceId].is_game_over = TRUE]
    /\ threads' = [threads EXCEPT ![t].pc = "returned"]
    /\ UNCHANGED << chat_and_cli, mcp_games, decimal_games, next_id, quiz_log, resp >>

RaceNext ==
    \/ start_game
    \/ RacePlays
    \/ \E t \in Threads : ReadExpected(t)
    \/ \E t \in Threads : Compare(t)
    \/ \E t \in Threads : Load(t)
    \/ \E t \in Threads : Store(t)
    \/ \E t \in Threads : SetOver(t)

SpecRace == Init /\ [][RaceNext]_vars

-----------------------------------------------------------------------------
(* The chat endpoints: routes.chat_with_ai (client.chat_with_ai runs the    *)
(* same two rounds on the history of its main loop), the history and the    *)
(* deletion of a conversation.  What the LLM answers is an input.           *)

SystemMessage == [role |-> "system"]

UserMessage == [role |-> "user"]

\* the assistant message that carries the tool calls of the first completion
AssistantToolCalls(tool_calls) ==
    [role |-> "assistant", tool_calls |-> tool_calls]

\* the assistant message that ends a request
AssistantMessage == [role |-> "assistant", tool_calls |-> << >>]

ToolMessage(tool_call_id, tool_result) ==
    [role |-> "tool", tool_call_id |-> tool_call_id, content |-> tool_result.kind]

\* a tool call of a completion: the function name, the game_id and the
\* sequence of its arguments (0 and "" where the tool takes none), and whether
\* the arguments are well formed: a string json.loads accepts, holding an
\* object with the parameters the tool requires and no others
ToolCall(name, game_id, sequence, well_formed) ==
    [name |-> name, game_id |-> game_id, sequence |-> sequence,
     well_formed |-> well_formed]

ToolCallsOffered ==
    { ToolCall("start_pi_game", 0, << >>, TRUE),
      ToolCall("verify_pi_sequence", 1, << "1", "4" >>, TRUE),
      ToolCall("end_game", 1, << >>, TRUE),
      ToolCall("unknown_tool", 0, << >>, TRUE),
      ToolCall("verify_pi_sequence", 1, << "1", "4" >>, FALSE) }

RECURSIVE SeqsUpTo(_, _)
\* the sequences of at most n elements of S
SeqsUpTo(S, n) ==
    IF n = 0 THEN { << >> }
    ELSE LET shorter == SeqsUpTo(S, n - 1) IN
         shorter \cup { Append(s, x) : s \in shorter, x \in S }

\* what a call of groq_client.chat.completions.create can come back with: an
\* exception, or a message with some tool calls or none
UpstreamError == [kind |-> "error", tool_calls |-> << >>]

Completion(tool_calls) == [kind |-> "message", tool_calls |-> tool_calls]

FirstCompletions ==
    { UpstreamError } \cup
    { Completion(tcs) : tcs \in SeqsUpTo(ToolCallsOffered, MaxToolCalls) }

FinalCompletions == { UpstreamError, Completion(<< >>) }

\* {"error": "Unknown tool: ..."}
UnknownTool == [kind |-> "unknown_tool"]

\* the registry of server.games and the ids issued, as one tool leaves them
Tooled(registry, issued, tool_result, raised) ==
    [registry |-> registry, issued |-> issued, tool_result |-> tool_result,
     raised |-> raised]

\* json.loads(tool_call.function.arguments); execute_tool(tool_name, arguments)
execute_tool(registry, issued, tool_call) ==
    IF ~tool_call.well_formed
    THEN Tooled(registry, issued, Failed(0), TRUE)
    ELSE IF tool_call.name = "start_pi_game"
    THEN Tooled(Put(registry, issued + 1, NewGame), issued + 1,
                [kind |-> "started", mode |-> "standard", current_position |-> 1],
                FALSE)
    ELSE IF tool_call.name = "verify_pi_sequence"
    THEN LET game_id == tool_call.game_id IN
         IF game_id \in DOMAIN registry
         THEN LET r == verify_pi_sequence(registry[game_id],
                                          tool_call.sequence) IN
              Tooled([registry EXCEPT ![game_id] = r.game], issued, r.out, FALSE)
         ELSE Tooled(registry, issued, NotFound, FALSE)
    ELSE IF tool_call.name = "end_game"
    THEN LET game_id == tool_call.game_id IN
         IF game_id \in DOMAIN registry
         THEN Tooled(Del(registry, game_id), issued,
                     [kind |-> "ended",
                      final_score |-> registry[game_id].current_index], FALSE)
         ELSE Tooled(registry, issued, NotFound, FALSE)
    ELSE Tooled(registry, issued, UnknownTool, FALSE)

\* a chat request while it runs: the history, the registry of the tools, the
\* ids issued, the completions issued, the tools executed, whether it raised
Chat(history, registry, issued, completions, executed, raised) ==
    [history |-> history, registry |-> registry, issued |-> issued,
     completions |-> completions, executed |-> executed, raised |-> raised]

RECURSIVE execute_tools(_, _, _)
\* for tool_call in message.tool_calls: from the k-th call on
execute_tools(chat, tool_calls, k) ==
    IF k > Len(tool_calls) THEN chat
    ELSE LET t == execute_tool(chat.registry, chat.issued, tool_calls[k]) IN
         IF t.raised
         THEN [chat EXCEPT !.raised = TRUE]
         ELSE execute_tools(
                  Chat(Append(chat.history, ToolMessage(k, t.tool_result)),
                       t.registry, t.issued, chat.completions,
                       Append(chat.executed, tool_calls[k].name), FALSE),
                  tool_calls, k + 1)

\* the body of chat_with_ai from the user message on
chat_rounds(history, registry, issued, first, final) ==
    LET asked == Chat(Append(history, UserMessage), registry, issued, 1,
                      << >>, FALSE) IN
    IF first.kind = "error"
    THEN [asked EXCEPT !.raised = TRUE]
    ELSE IF first.tool_calls # << >>
    THEN LET called == [asked EXCEPT !.history =
                            Append(@, AssistantToolCalls(first.tool_calls))]
             tooled == execute_tools(called, first.tool_calls, 1) IN
         IF tooled.raised
         THEN tooled
         ELSE IF final.kind = "error"
         THEN [tooled EXCEPT !.completions = 2, !.raised = TRUE]
         ELSE [tooled EXCEPT !.completions = 2,
                             !.history = Append(@, AssistantMessage)]
    ELSE [asked EXCEPT !.history = Append(@, AssistantMessage)]

\* the conversation ids: one conversation at a time, under the id the client
\* sends or the one uuid4() issues when it sends none
ConversationIds == { 1 }

\* ChatRequest.conversation_id: None or an id
RequestedConversations == { NoInt, Int1(1) }

\* HTTP 500 "GROQ_API_KEY not configured"
NotConfigured == [kind |-> "not_configured"]

\* ChatResponse, or HTTP 500 with the text of the exception
ChatOut(chat, before) ==
    [kind |-> IF chat.raised THEN "error" ELSE "chat",
     completions |-> chat.completions, executed |-> chat.executed,
     before |-> before]

\* POST /chat
chat_with_ai ==
    \E requested \in RequestedConversations,
       first \in FirstCompletions, final \in FinalCompletions :
        LET input == [conversation_id |-> requested, first |-> first,
                      final |-> final] IN
        IF ~GROQ_API_KEY
        THEN /\ resp' = Request("chat", "rest", 0, input, FALSE, NewGame,
                                NotConfigured)
             /\ UNCHANGED << conversations, GROQ_API_KEY, cli, threads, games,
                             mcp_games, decimal_games, next_id, quiz_log >>
        ELSE LET conversation_id == IF requested = NoInt THEN 1 ELSE requested[1]
                 known == conversation_id \in DOMAIN conversations
                 conversation_history ==
                     IF known THEN conversations[conversation_id]
                     ELSE << SystemMessage >>
                 chat == chat_rounds(conversation_history, mcp_games, next_id,
                                     first, final) IN
             /\ requested = NoInt => ~known
             /\ Len(conversation_history) < MaxHistory
             /\ chat.issued \in Ids \cup { 0 }
             /\ conversations' = Put(conversations, conversation_id, chat.history)
             /\ mcp_games' = chat.registry
             /\ next_id' = chat.issued
             /\ resp' = Request("chat", "rest", conversation_id, input, known,
                                NewGame, ChatOut(chat, conversation_history))
             /\ UNCHANGED << GROQ_API_KEY, cli, threads, games, decimal_games,
                             quiz_log >>

\* the user and assistant messages of a conversation
Visible(message) == message.role \in { "user", "assistant" }

\* GET /chat/{conversation_id}/history
get_conversation_history ==
    \E conversation_id \in ConversationIds :
        /\ resp' = IF conversation_id \in DOMAIN conversations
                   THEN Request("history", "rest", conversation_id, << >>, TRUE,
                                NewGame,
                                [kind |-> "history",
                                 history |-> SelectSeq(conversations[conversation_id],
                                                       Visible)])
                   ELSE Request("history", "rest", conversation_id, << >>, FALSE,
                                NewGame, NotFound)
        /\ UNCHANGED << chat_and_cli, threads, games, mcp_games, decimal_games,
                        next_id, quiz_log >>

\* DELETE /chat/{conversation_id}
delete_conversation ==
    \E conversation_id \in ConversationIds :
        /\ IF conversation_id \in DOMAIN conversations
           THEN /\ conversations' = Del(conversations, conversation_id)
                /\ resp' = Request("delete_conversation", "rest", conversation_id,
                                   << >>, TRUE, NewGame, [kind |-> "deleted"])
           ELSE /\ conversations' = conversations
                /\ resp' = Request("delete_conversation", "rest", conversation_id,
                                   << >>, FALSE, NewGame, NotFound)
        /\ UNCHANGED << GROQ_API_KEY, cli, threads, games, mcp_games,
                        decimal_games, next_id, quiz_log >>

\* the process starts with the key in its environment or without it
InitChat ==
    /\ games = << >>
    /\ mcp_games = << >>
    /\ decimal_games = << >>
    /\ next_id = 0
    /\ quiz_log = << >>
    /\ resp = NoRequest
    /\ threads = [t \in Threads |-> IdleThread]
    /\ conversations = << >>
    /\ GROQ_API_KEY \in BOOLEAN
    /\ cli = CliOff

ChatNext ==
    \/ chat_with_ai
    \/ get_conversation_history
    \/ delete_conversation

SpecChat == InitChat /\ [][ChatNext]_vars

-----------------------------------------------------------------------------
(* Two games in routes.games at once: the REST game endpoints with two ids  *)
(* and a few inputs each                                                    *)

TwoIds == { 1, 2 }

TwoStartPositions == { 1, 3 }

TwoPlayInputs == { << "1" >>, << "4" >>, << "9" >>, ExitWord, << "a" >> }

TwoVerifyInputs == { << "1", "4" >>, << "1", "5" >>, << "9" >>, << >> }

\* POST /start
TwoStartGame ==
    \E mode \in { 1, 2 }, start_position \in TwoStartPositions :
        LET game == IF mode = 2
                    THEN [NewGame EXCEPT !.current_index = start_position - 1]
                    ELSE NewGame
            game_id == next_id + 1 IN
        /\ next_id + 1 \in TwoIds
        /\ next_id' = game_id
        /\ games' = Put(games, game_id, game)
        /\ resp' = Request("start", "rest", game_id, << mode, start_position >>,
                           FALSE, NewGame,
                           [kind |-> "started",
                            mode |-> IF mode = 2 THEN "custom" ELSE "standard",
                            current_position |-> game.current_index + 1])
        /\ UNCHANGED << chat_and_cli, threads, mcp_games, decimal_games, quiz_log >>

\* POST /game/{game_id}/play
TwoPlayTurn ==
    \E game_id \in TwoIds, user_input \in TwoPlayInputs :
        /\ IF game_id \in DOMAIN games
           THEN LET r == play_turn(games[game_id], user_input) IN
                /\ games' = [games EXCEPT ![game_id] = r.game]
                /\ resp' = Request("play", "rest", game_id, user_input, TRUE,
                                   games[game_id], r.out)
           ELSE /\ games' = games
                /\ resp' = Request("play", "rest", game_id, user_input, FALSE,
                                   NewGame, NotFound)
        /\ UNCHANGED << chat_and_cli, threads, mcp_games, decimal_games, next_id,
                        quiz_log >>

\* POST /game/{game_id}/verify
TwoVerifySequence ==
    \E game_id \in TwoIds, sequence \in TwoVerifyInputs :
        /\ IF game_id \in DOMAIN games
           THEN LET r == verify_sequence(games[game_id], sequence) IN
                /\ games' = [games EXCEPT ![game_id] = r.game]
                /\ resp' = Request("verify", "rest", game_id, sequence, TRUE,
                                   games[game_id], r.out)
           ELSE /\ games' = games
                /\ resp' = Request("verify", "rest", game_id, sequence, FALSE,
                                   NewGame, NotFound)
        /\ UNCHANGED << chat_and_cli, threads, mcp_games, decimal_games, next_id,
                        quiz_log >>

\* GET /game/{game_id}/status
TwoGetGameStatus ==
    \E game_id \in TwoIds :
        /\ resp' = IF game_id \in DOMAIN games
                   THEN Request("status", "rest", game_id, << >>, TRUE,
                                games[game_id], game_status(games[game_id]))
                   ELSE Request("status", "rest", game_id, << >>, FALSE,
                                NewGame, NotFound)
        /\ UNCHANGED << chat_and_cli, threads, games, mcp_games, decimal_games,
                        next_id, quiz_log >>

\* GET /game/{game_id}/hint?count=
TwoGetHint ==
    \E game_id \in TwoIds, count \in { 0, 2 } :
        /\ resp' = IF game_id \in DOMAIN games
                   THEN Request("hint", "rest", game_id, << count >>, TRUE,
                                games[game_id], get_hint(games[game_id], count))
                   ELSE Request("hint", "rest", game_id, << count >>, FALSE,
                                NewGame, NotFound)
        /\ UNCHANGED << chat_and_cli, threads, games, mcp_games, decimal_games,
                        next_id, quiz_log >>

\* DELETE /game/{game_id}
TwoEndGame ==
    \E game_id \in TwoIds :
        /\ IF game_id \in DOMAIN games
           THEN /\ games' = Del(games, game_id)
                /\ resp' = Request("end", "rest", game_id, << >>, TRUE,
                                   games[game_id],
                                   [kind |-> "ended",
                                    final_score |-> games[game_id].current_index])
           ELSE /\ games' = games
                /\ resp' = Request("end", "rest", game_id, << >>, FALSE,
                                   NewGame, NotFound)
        /\ UNCHANGED << chat_and_cli, threads, mcp_games, decimal_games, next_id,
                        quiz_log >>

TwoGamesNext ==
    \/ TwoStartGame
    \/ TwoPlayTurn
    \/ TwoVerifySequence
    \/ TwoGetGameStatus
    \/ TwoGetHint
    \/ TwoEndGame

SpecTwoGames == Init /\ [][TwoGamesNext]_vars

-----------------------------------------------------------------------------
(* Games and quizzes together: the tools that start, show and end a game,  *)
(* the quiz tools, and the REST quiz start and game end                     *)

GamesAndQuizzesNext ==
    \/ start_pi_game
    \/ McpGetGameStatus
    \/ GetPiHint
    \/ McpEndGame
    \/ guess_pi_position
    \/ McpCheckPositionGuess
    \/ start_position_quiz
    \/ EndGame

SpecGamesAndQuizzes == Init /\ [][GamesAndQuizzesNext]_vars

-----------------------------------------------------------------------------
(* The command-line game: play_cli of cli.py, cli/cli.py and cli/cli_v2.py, *)
(* entered with a new Game or with the Game of cli_v2.play_from_position    *)

\* while not game.is_game_over and game.current_index < len(game.pi_decimals)
loop_condition(game) ==
    ~game.is_game_over /\ game.current_index < Len(game_pi_decimals(game))

\* the loop is left (or never entered): if game.is_complete(): print(...)
Left(game, entered, checks, checked, raised) ==
    Cli("ended", game, entered, checks, checked, raised, is_complete(game))

\* the positions typed at the prompt of play_from_position that it refuses
RefusedPositions == { 0, PiLen + 1, PiLen + 2 }

\* the Game that play_from_position hands to play_cli: at the position typed,
\* when that is in range; or, when an exit keyword is typed after a position
\* that was refused, marked over by is_exit and moved to the refused position
GamesFromPosition ==
    { [NewGame EXCEPT !.current_index = start_pos - 1] :
          start_pos \in 1..Len(PI_DECIMALS) } \cup
    { [current_index |-> start_pos - 1, is_game_over |-> TRUE] :
          start_pos \in RefusedPositions }

\* play_cli is called: with Game(), or by play_from_position
CliStart ==
    \E game \in { NewGame } \cup GamesFromPosition :
        /\ cli.pc = "off"
        /\ cli' = IF loop_condition(game)
                  THEN Cli("loop", game, game.current_index, 0, NewGame, FALSE, FALSE)
                  ELSE Left(game, game.current_index, 0, NewGame, FALSE)
        /\ UNCHANGED << conversations, GROQ_API_KEY, threads, games, mcp_games,
                        decimal_games, next_id, quiz_log, resp >>

\* one pass of the loop of play_cli, from input() to the next test of the
\* loop condition, and what follows the loop when it is left
CliTurn ==
    \E user_input \in PlayInputs :
        /\ cli.pc = "loop"
        /\ LET e == is_exit(cli.game, user_input) IN
           IF e.result
           THEN cli' = Left(e.game, cli.entered, cli.checks, cli.checked, FALSE)
           ELSE IF ~is_valid_input(user_input)
           THEN cli' = cli
           ELSE LET r == check_input(cli.game, user_input) IN
                IF r.raised
                THEN cli' = Cli("raised", r.game, cli.entered, cli.checks + 1,
                                cli.game, TRUE, FALSE)
                ELSE IF r.is_correct = "True" /\ loop_condition(r.game)
                THEN cli' = Cli("loop", r.game, cli.entered, cli.checks + 1,
                                cli.game, FALSE, FALSE)
                ELSE cli' = Left(r.game, cli.entered, cli.checks + 1, cli.game,
                                 FALSE)
        /\ UNCHANGED << conversations, GROQ_API_KEY, threads, games, mcp_games,
                        decimal_games, next_id, quiz_log, resp >>

CliNext ==
    \/ CliStart
    \/ CliTurn

SpecCli == Init /\ [][CliNext]_vars

-----------------------------------------------------------------------------
(* Game.start and Game.play, the loop of game_logic itself                  *)

\* what one pass of Game.play printed: nothing ("continue") or "Game Over!"
PassOut(kind, expected_digit) == [kind |-> kind, expected_digit |-> expected_digit]

\* Game.play is left: if self.current_index == len(self.pi_decimals): print(...)
PlayLeft(game, entered, checks, checked) ==
    Cli("ended", game, entered, checks, checked, FALSE,
        game.current_index = Len(game_pi_decimals(game)))

\* main: Game().start(), which calls play
Game_start ==
    /\ cli.pc = "off"
    /\ cli' = Cli("loop", NewGame, 0, 0, NewGame, FALSE, FALSE)
    /\ UNCHANGED << conversations, GROQ_API_KEY, threads, games, mcp_games,
                    decimal_games, next_id, quiz_log, resp >>

\* one pass of the loop of Game.play, from input() to the next test of the
\* loop condition, and what follows the loop when it is left
Game_play ==
    \E user_input \in PlayInputs :
        /\ cli.pc = "loop"
        /\ LET r == check_input(cli.game, user_input) IN
           IF r.raised
           THEN /\ cli' = Cli("raised", r.game, cli.entered, cli.checks + 1,
                              cli.game, TRUE, FALSE)
                /\ resp' = Request("input", "game_logic", 0, user_input, TRUE,
                                   cli.game, Failed(1))
           ELSE IF r.is_correct = "True"
           THEN /\ cli' = IF loop_condition(r.game)
                          THEN Cli("loop", r.game, cli.entered, cli.checks + 1,
                                   cli.game, FALSE, FALSE)
                          ELSE PlayLeft(r.game, cli.entered, cli.checks + 1, cli.game)
                /\ resp' = Request("input", "game_logic", 0, user_input, TRUE,
                                   cli.game, PassOut("continue", None))
           ELSE /\ cli' = PlayLeft(r.game, cli.entered, cli.checks + 1, cli.game)
                /\ resp' = Request("input", "game_logic", 0, user_input, TRUE,
                                   cli.game, PassOut("game_over", r.expected_digit))
        /\ UNCHANGED << conversations, GROQ_API_KEY, threads, games, mcp_games,
                        decimal_games, next_id, quiz_log >>

GamePlayNext ==
    \/ Game_start
    \/ Game_play

SpecGamePlay == Init /\ [][GamePlayNext]_vars

-----------------------------------------------------------------------------
(* cli_v2.play_from_position: the starting-position prompt of custom mode   *)

\* int(s) succeeds: decimal digits only (no sign or space is ever typed here)
IntOk(s) == s # << >> /\ \A k \in 1..Len(s) : s[k] \in DecimalDigits

\* the value of a decimal digit
DigitValue(c) ==
    CASE c = "0" -> 0 [] c = "1" -> 1 [] c = "2" -> 2 [] c = "3" -> 3
      [] c = "4" -> 4 [] c = "5" -> 5 [] c = "6" -> 6 [] c = "7" -> 7
      [] c = "8" -> 8 [] c = "9" -> 9

RECURSIVE py_int(_)
\* int(s), where it succeeds
py_int(s) ==
    IF s = << >> THEN 0
    ELSE 10 * py_int(SubSeq(s, 1, Len(s) - 1)) + DigitValue(s[Len(s)])

\* what is typed at the prompt, one entry per line
PositionEntries ==
    { << "q" >>, << "0" >>, << "1" >>, << "3" >>, << "1", "0" >>,
      << "1", "1" >>, << "a" >>, << >> }

\* how play_from_position stands: waiting at its prompt, left by an
\* exception, or calling play_cli; with the game, the local start_pos (None
\* while unbound) and the number of entries it has read
Prompted(kind, game, start_pos, read) ==
    [kind |-> kind, game |-> game, start_pos |-> start_pos, read |-> read]

\* what follows the prompt loop: game.current_index = start_pos - 1, the
\* print of the decimals before it, play_cli(game)
after_prompt(game, start_pos, read) ==
    IF start_pos = NoInt
    THEN Prompted("exception", game, start_pos, read)
    ELSE Prompted("play", [game EXCEPT !.current_index = start_pos[1] - 1],
                  start_pos, read)

RECURSIVE play_from_position(_, _, _, _)
\* the prompt loop of play_from_position, from the k-th entry on
play_from_position(game, start_pos, entries, k) ==
    IF k > Len(entries)
    THEN Prompted("waiting", game, start_pos, k - 1)
    ELSE LET start_pos_input == entries[k]
             e == is_exit(game, start_pos_input) IN
         IF e.result
         THEN after_prompt(e.game, start_pos, k)
         ELSE IF ~IntOk(start_pos_input)
         THEN Prompted("exception", game, start_pos, k)
         ELSE LET typed == py_int(start_pos_input) IN
              IF typed < 1 \/ typed > Len(game_pi_decimals(game))
              THEN play_from_position(game, Int1(typed), entries, k + 1)
              ELSE after_prompt(game, Int1(typed), k)

\* mode 2 of cli_v2.start: play_from_position with the entries typed
PlayFromPosition ==
    \E entries \in SeqsUpTo(PositionEntries, MaxEntries) :
        LET p == play_from_position(NewGame, NoInt, entries, 1) IN
        /\ cli.pc = "off"
        /\ cli' = IF p.kind = "waiting" THEN cli
                  ELSE IF p.kind = "exception"
                  THEN Cli("raised", p.game, 0, 0, NewGame, TRUE, FALSE)
                  ELSE IF loop_condition(p.game)
                  THEN Cli("loop", p.game, p.game.current_index, 0, NewGame,
                           FALSE, FALSE)
                  ELSE Left(p.game, p.game.current_index, 0, NewGame, FALSE)
        /\ resp' = Request("position", "cli", 0, entries, TRUE, NewGame,
                           [kind |-> p.kind, start_pos |-> p.start_pos,
                            read |-> p.read])
        /\ UNCHANGED << conversations, GROQ_API_KEY, threads, games, mcp_games,
                        decimal_games, next_id, quiz_log >>

CustomModeNext ==
    \/ PlayFromPosition
    \/ CliTurn

SpecCustomMode == Init /\ [][CustomModeNext]_vars

-----------------------------------------------------------------------------
(* What the claims are stated with *)

\* every registered game, of both layers
AllGames == { games[id] : id \in DOMAIN games } \cup
            { mcp_games[id] : id \in DOMAIN mcp_games }

\* the last request was a play or a verify on a registered game
Checked == resp.op \in { "play", "verify" } /\ resp.found

Verified == resp.op = "verify" /\ resp.found

\* the game the last request addressed, as the request left it
After == IF resp.layer = "rest" THEN games[resp.id] ELSE mcp_games[resp.id]

\* the digits the last request submitted to check_input, in order
Submitted ==
    IF resp.op = "verify"
    THEN SelectSeq(clean_sequence(resp.input), IsDigitChar)
    ELSE IF ~is_exit(resp.pre, resp.input).result /\ is_valid_input(resp.input)
    THEN resp.input
    ELSE << >>

RECURSIVE MatchCount(_, _)
\* how many leading digits of ds are the decimals of Pi from index c on
MatchCount(c, ds) ==
    IF ds = << >> \/ ~IndexOk(PI_DECIMALS, c) THEN 0
    ELSE IF Head(ds) # PyIndex(PI_DECIMALS, c) THEN 0
    ELSE 1 + MatchCount(c + 1, Tail(ds))

AllCorrect(out) == out.kind = "all_correct"

-----------------------------------------------------------------------------
(* C1 *)

CursorInRange ==
    \A g \in AllGames : 0 <= g.current_index /\ g.current_index <= Len(PI_DECIMALS)

CursorNonDecreasing ==
    /\ \A id \in DOMAIN games \cap DOMAIN games' :
           games'[id].current_index >= games[id].current_index
    /\ \A id \in DOMAIN mcp_games \cap DOMAIN mcp_games' :
           mcp_games'[id].current_index >= mcp_games[id].current_index

\* C1: under every sequence of start, play, verify, hint, status and end
\* requests the cursor of every game is within 0..length(DigitSource) and
\* never decreases from one state to the next.
C1_CursorBoundedMonotonic == [](CursorInRange) /\ [][CursorNonDecreasing]_vars

-----------------------------------------------------------------------------
(* C2 *)

-----------------------------------------------------------------------------
(* C3 *)

\* the last request verified exactly the next k decimals, k >= 1
NextRun(k) ==
    /\ Verified
    /\ resp.pre.current_index >= 0
    /\ k >= 1 /\ resp.pre.current_index + k <= Len(PI_DECIMALS)
    /\ resp.input = SubSeq(PI_DECIMALS, resp.pre.current_index + 1,
                           resp.pre.current_index + k)

\* C3: a verify whose sequence is exactly the next k decimals reports
\* all_correct with correct_count = k and leaves the cursor at c + k,
\* whatever the next expected decimal is.
C3_NextRunAccepted ==
    \A k \in 1..PiLen :
        NextRun(k) =>
            /\ AllCorrect(resp.out)
            /\ resp.out.correct_count = k
            /\ After.current_index = resp.pre.current_index + k

-----------------------------------------------------------------------------
(* C4 *)

\* C4: a mismatch found while the cursor is c is reported with
\* wrong_at_position = c + 1, expected_digit = DigitSource[c] and got_digit
\* the submitted digit, in both layers; "99999" on a fresh game gives
\* position 1, expected '1', got '9', digits_checked 1.
C4_MismatchReport ==
    (Verified /\ resp.out.kind = "wrong") =>
        /\ resp.out.all_correct = FALSE
        /\ resp.out.wrong_at_position = Int1(After.current_index + 1)
        /\ resp.out.expected_digit = PyIndex(PI_DECIMALS, After.current_index)
        /\ resp.out.got_digit = Submitted[resp.out.correct_count + 1]
        /\ (resp.input = S_99999 /\ resp.pre = NewGame) =>
               /\ resp.out.wrong_at_position = Int1(1)
               /\ resp.out.expected_digit = "1"
               /\ resp.out.got_digit = "9"
               /\ resp.out.digits_checked = 1

-----------------------------------------------------------------------------
(* C5 *)

\* C5: verifying "3.14159" on a fresh game reports all_correct with
\* correct_count = 5 and leaves the cursor at 5.
C5_Verify314159 ==
    (Verified /\ resp.input = S_3_14159 /\ resp.pre = NewGame) =>
        /\ AllCorrect(resp.out)
        /\ resp.out.correct_count = 5
        /\ After.current_index = 5

C5_Witness ==
    /\ Verified /\ resp.input = S_3_14159 /\ resp.pre = NewGame
    /\ resp.out.current_score = 5

-----------------------------------------------------------------------------
(* C6 *)

\* the last request verified "1415" on a fresh game
First1415 == Verified /\ resp.input = S_1415 /\ resp.pre = NewGame

\* C6: when "1415" is verified on a fresh game and the next request verifies
\* "9265" on the same game, both report all_correct, the second starts at
\* cursor 4 and the cursor ends at 8.
C6_TwoCallsAccumulate ==
    [][ ( /\ First1415
          /\ resp'.op = "verify" /\ resp'.input = S_9265
          /\ resp'.layer = resp.layer /\ resp'.id = resp.id )
        => ( /\ AllCorrect(resp.out)
             /\ resp'.found
             /\ resp'.pre.current_index = 4
             /\ AllCorrect(resp'.out)
             /\ After'.current_index = 8 ) ]_vars

C6_Witness ==
    /\ Verified /\ resp.input = S_9265
    /\ resp.pre = [current_index |-> 4, is_game_over |-> FALSE]
    /\ AllCorrect(resp.out) /\ After.current_index = 8

-----------------------------------------------------------------------------
(* C7 *)

SameDigits == { S_3_1_4_1_5, S_3141_5, S_31415 }

\* what a verify of sequence does to game and answers, in a layer
Outcome(layer, game, sequence) ==
    IF layer = "rest"
    THEN verify_sequence(game, sequence)
    ELSE verify_pi_sequence(game, sequence)

\* C7: from any starting cursor, "3.1 4 1 5", "3141 5" and "31415" give the
\* same result (digits_checked, correct_count, all_correct, the mismatch
\* fields, the score) and the same final game.
C7_Normalization ==
    (Verified /\ resp.input \in SameDigits) =>
        \A s \in SameDigits :
            Outcome(resp.layer, resp.pre, s) = [game |-> After, out |-> resp.out]

C7_Witness ==
    /\ Verified /\ resp.input = S_3_1_4_1_5
    /\ resp.out.kind = "wrong" /\ resp.out.correct_count = 0

-----------------------------------------------------------------------------
(* C8 *)

\* the submitted run has a first digit that is not the decimal at the cursor
FirstMismatch(m) ==
    /\ Verified
    /\ m = MatchCount(resp.pre.current_index, Submitted)
    /\ m < Len(Submitted)
    /\ IndexOk(PI_DECIMALS, resp.pre.current_index + m)

\* C8: when the first non-matching digit of the run is its (m+1)-th digit,
\* the call makes exactly m + 1 digit checks, reports correct_count = m and
\* the (m+1)-th digit as got_digit, and leaves the cursor at start + m.
C8_ShortCircuit ==
    Verified =>
    \A m \in 0..Len(Submitted) :
        FirstMismatch(m) =>
            /\ resp.out.kind = "wrong"
            /\ resp.out.calls = m + 1
            /\ resp.out.correct_count = m
            /\ resp.out.got_digit = Submitted[m + 1]
            /\ After.current_index = resp.pre.current_index + m

\* two digits matched, the third did not, and digits follow it
C8_Witness ==
    /\ Verified /\ FirstMismatch(2) /\ Len(Submitted) > 3
    /\ resp.out.kind = "wrong"

-----------------------------------------------------------------------------
(* C9 *)

\* C9: once a check with a valid guess has been answered for a quiz id,
\* every later check for that id reports already-completed, in both layers.
C9_AnswerableOnce ==
    (resp.op = "quiz_check" /\ resp.found /\ resp.pre.answered) =>
        resp.out.kind = "already_completed"

-----------------------------------------------------------------------------
(* C10 *)

StaysOver ==
    /\ \A id \in DOMAIN games \cap DOMAIN games' :
           games[id].is_game_over => games'[id].is_game_over
    /\ \A id \in DOMAIN mcp_games \cap DOMAIN mcp_games' :
           mcp_games[id].is_game_over => mcp_games'[id].is_game_over

\* C10: once is_game_over is true for a game it is true in every later state
\* of that game, under play, verify, hint and status requests.
C10_TerminalAbsorbing == [][StaysOver]_vars

\* a game that was over has had more digits accepted and is still over
C10_Witness ==
    /\ Checked /\ resp.pre.is_game_over
    /\ resp.out.kind \in { "all_correct", "result" }
    /\ After.current_index > resp.pre.current_index
    /\ After.is_game_over

-----------------------------------------------------------------------------
(* C11 *)

\* a game that is not over, with a decimal left at its cursor
Active(game) ==
    /\ ~game.is_game_over
    /\ 0 <= game.current_index /\ game.current_index < Len(PI_DECIMALS)

\* the last request played one decimal digit on an active game
SingleCheck ==
    /\ resp.op = "play" /\ resp.found /\ Active(resp.pre)
    /\ Len(resp.input) = 1 /\ resp.input[1] \in DecimalDigits

\* what a check of digit d on an active game must give
CheckedDigit(game, d) ==
    LET c == game.current_index IN
    IF d = PI_DECIMALS[c + 1]
    THEN Returned([current_index |-> c + 1, is_game_over |-> FALSE], "True", None)
    ELSE Returned([current_index |-> c, is_game_over |-> TRUE], "False",
                  PI_DECIMALS[c + 1])

\* C11: a check of one decimal digit d on an active game with cursor c: when
\* d = DigitSource[c] the cursor becomes c + 1, the game stays active and the
\* result is (true, null); otherwise the cursor stays c, the game is over and
\* the result is (false, DigitSource[c]).  Stated of check_input on every
\* registered active game, and of the play request that makes the check.
C11_SingleDigitCheck ==
    /\ \A g \in AllGames, d \in DecimalDigits :
           Active(g) => check_input(g, << d >>) = CheckedDigit(g, d)
    /\ SingleCheck =>
           LET want == CheckedDigit(resp.pre, resp.input[1]) IN
           /\ After = want.game
           /\ resp.out.correct = want.is_correct
           /\ resp.out.expected_digit = want.expected_digit
           /\ resp.out.current_index = want.game.current_index

\* a wrong digit was played on an active game that had digits recalled
C11_Witness ==
    /\ SingleCheck /\ resp.pre.current_index = 3
    /\ resp.out.correct = "False" /\ After.is_game_over

-----------------------------------------------------------------------------
(* C12 *)

\* sequences with nothing left once spaces, "." and a leading "3" are removed
EmptyOnceCleaned == { << >>, << " " >>, << "3" >>, << "3", "." >>, << " ", "." >> }

\* C12: a verify whose sequence is empty after normalization ("", " ", "3",
\* "3.") reports "No digits provided" and leaves the game's cursor and
\* is_game_over as they were.
C12_EmptySequenceRejected ==
    (Verified /\ resp.input \in EmptyOnceCleaned) =>
        /\ resp.out.kind = "no_digits"
        /\ After = resp.pre

\* "3." was verified on a game whose next decimal is '3'
C12_Witness ==
    /\ Verified /\ resp.input = << "3", "." >>
    /\ resp.pre.current_index = 8
    /\ resp.out.kind = "no_digits"

-----------------------------------------------------------------------------
(* C13 *)

\* a character that is a digit (for str.isdigit), a space or "."
Plain(c) == IsDigitChar(c) \/ c \in { " ", "." }

\* the sequence without its other characters
WithoutOthers(sequence) == SelectSeq(sequence, Plain)

\* what C13 compares of a verify: all_correct, correct_count, the mismatch
\* position, expected and got digits, and the final cursor
Compared(r) ==
    IF r.out.kind \in { "wrong", "all_correct" }
    THEN << r.out.kind, r.out.all_correct, r.out.correct_count,
            r.out.wrong_at_position, r.out.expected_digit, r.out.got_digit,
            r.game.current_index >>
    ELSE << r.out.kind, r.game.current_index >>

\* C13: characters other than digits, space and "." are ignored: a
\* verify of a sequence holding such characters, at any positions (before a
\* leading "3" too), gives the same all_correct, correct_count, mismatch
\* fields and final cursor as the sequence without them.
C13_OtherCharactersIgnored ==
    (Verified /\ WithoutOthers(resp.input) # resp.input) =>
        Compared([game |-> After, out |-> resp.out]) =
        Compared(Outcome(resp.layer, resp.pre, WithoutOthers(resp.input)))

-----------------------------------------------------------------------------
(* C14 *)

GameOps == { "play", "verify", "status", "hint", "end" }

\* the registry of a layer, given both registries
RegistryOf(layer, rest, mcp) == IF layer = "rest" THEN rest ELSE mcp

\* a step whose request names an id that is not registered reports NotFound
\* and changes no game; one that names a registered id does not
AbsentIsNotFound ==
    resp'.op \in GameOps =>
        IF resp'.id \in DOMAIN RegistryOf(resp'.layer, games, mcp_games)
        THEN resp'.out.kind # "not_found"
        ELSE /\ resp'.out.kind = "not_found"
             /\ games' = games /\ mcp_games' = mcp_games

\* an id leaves a registry only by a successful end of that id in that layer
RemovedOnlyByEnd ==
    \A layer \in { "rest", "mcp" } :
        \A id \in DOMAIN RegistryOf(layer, games, mcp_games) \
                  DOMAIN RegistryOf(layer, games', mcp_games') :
            /\ resp'.op = "end" /\ resp'.layer = layer /\ resp'.id = id
            /\ resp'.out.kind = "ended"

\* a successful end leaves the id absent
EndRemoves ==
    (resp'.op = "end" /\ resp'.out.kind = "ended") =>
        resp'.id \notin DOMAIN RegistryOf(resp'.layer, games', mcp_games')

\* an id enters a registry only by a start, and it is an id never issued before
AddedOnlyByStart ==
    \A layer \in { "rest", "mcp" } :
        \A id \in DOMAIN RegistryOf(layer, games', mcp_games') \
                  DOMAIN RegistryOf(layer, games, mcp_games) :
            /\ resp'.op = "start" /\ resp'.layer = layer /\ resp'.id = id
            /\ id > next_id /\ next_id' = id

\* C14: play, verify, status, hint and end on an id that is not registered
\* report NotFound and change no game; a successful end removes the id, which
\* is never registered again, so every later request on it (a second end too)
\* reports NotFound; no other request removes an id.
C14_RegistryLifecycle ==
    [][ AbsentIsNotFound /\ RemovedOnlyByEnd /\ EndRemoves /\ AddedOnlyByStart ]_vars

\* the one id was issued, its game was ended, and an end of it found nothing
C14_Witness ==
    /\ next_id = 1 /\ games = << >> /\ mcp_games = << >>
    /\ resp.op = "end" /\ resp.id = 1 /\ resp.out.kind = "not_found"

-----------------------------------------------------------------------------
(* C15 *)

QuizStart == resp.op = "quiz_start"

\* C15: a quiz start ends in a registered quiz whose position p satisfies
\* 1 <= p <= length of the digits, or in a range error that registers nothing;
\* with the position omitted this holds for every max_position, so a start
\* never ends in an unhandled failure.
C15_QuizStartRange ==
    QuizStart =>
        /\ resp.out.kind \in { "quiz_started", "out_of_range" }
        /\ resp.out.kind = "quiz_started" =>
               /\ resp.out.position \in 1..Len(PI_DECIMALS)
               /\ resp.id \in DOMAIN quiz_log
               /\ quiz_log[resp.id].position = resp.out.position
        /\ resp.out.kind = "out_of_range" => resp.id \notin DOMAIN quiz_log

-----------------------------------------------------------------------------
(* C16 *)

\* the last request checked a guess of a started quiz and reported a result
QuizChecked ==
    /\ resp.op = "quiz_check" /\ resp.found
    /\ resp.pre.layer # "none" /\ resp.out.kind = "checked"

\* C16: a quiz check reports correct exactly when the guess is the digit at
\* the position the quiz was started with, and when wrong reports that digit
\* as expected_digit, whatever position is supplied with the check.
C16_CheckUsesStoredPosition ==
    QuizChecked =>
        LET digit == PI_DECIMALS[resp.pre.position] IN
        /\ resp.out.correct = (resp.input[1] = << digit >>)
        /\ ~resp.out.correct => resp.out.expected_digit = digit

-----------------------------------------------------------------------------
(* C17 *)

\* the last request was a play on a registered game
Played == resp.op = "play" /\ resp.found

\* the inputs that are 'exit' or 'q' up to case, among those played
ExitInputs ==
    { << "e", "x", "i", "t" >>, << "E", "x", "i", "t" >>, << "q" >>, << "Q" >> }

-----------------------------------------------------------------------------
(* C18 *)

\* the inputs that are exactly one decimal digit
SingleDigits == { << d >> : d \in DecimalDigits }

-----------------------------------------------------------------------------
(* C19 *)

\* the play that enters the last digit of the digit source
LastDigitPlayed ==
    /\ Played /\ ~resp.pre.is_game_over
    /\ resp.pre.current_index = Len(PI_DECIMALS) - 1
    /\ resp.input = << PI_DECIMALS[Len(PI_DECIMALS)] >>

\* C19: is_complete is true exactly when the cursor is at or past the length
\* of the digit source; the play that enters the last digit reports
\* game_over = true and leaves the game over; every later play or verify of
\* digits on that game returns a result and leaves the cursor unchanged.
C19_Completion ==
    /\ \A g \in AllGames : is_complete(g) = (g.current_index >= Len(PI_DECIMALS))
    /\ LastDigitPlayed =>
           /\ resp.out.kind = "complete" /\ resp.out.game_over
           /\ After.current_index = Len(PI_DECIMALS)
           /\ After.is_game_over
    /\ (Checked /\ resp.pre.current_index >= Len(PI_DECIMALS)) =>
           /\ resp.out.kind # "exception"
           /\ After.current_index = resp.pre.current_index

-----------------------------------------------------------------------------
(* C20 *)

\* both requests have left check_input
BothLeft == \A t \in Threads : threads[t].pc \in { "returned", "raised" }

\* the game after check_input has run for one digit and then for the other
Serial(game, first, second) ==
    check_input(check_input(game, << first >>).game, << second >>).game

\* the cursors at which a request compared its digit and found it equal
MatchedAt ==
    { threads[t].index : t \in { u \in Threads :
          /\ threads[u].pc \in { "load", "store", "returned" }
          /\ threads[u].user_input = threads[u].expected_digit } }

\* C20: when two requests have checked a digit against the same game at the
\* same time, the game is as some serial order of the two calls of check_input
\* leaves it, and every position the cursor has passed was matched by one of
\* the two requests: the cursor skips no position that nobody verified.
C20_SerialOutcome ==
    BothLeft =>
        LET pre == threads[1].pre
            first == threads[1].user_input
            second == threads[2].user_input IN
        /\ games[RaceId] \in { Serial(pre, first, second),
                               Serial(pre, second, first) }
        /\ \A i \in pre.current_index..(games[RaceId].current_index - 1) :
               i \in MatchedAt

-----------------------------------------------------------------------------
(* C21 *)

\* the last request was a chat request that got past the key check
Chatted == resp.op = "chat" /\ resp.out.kind \in { "chat", "error" }

\* the messages the last chat request appended to its conversation
Appended ==
    SubSeq(conversations[resp.id], Len(resp.out.before) + 1,
           Len(conversations[resp.id]))

IsToolMessage(message) == message.role = "tool"

\* C21: a chat request issues one initial completion; exactly when that
\* completion holds tool calls, every one of them is executed once, in order,
\* with one tool message appended per call, and one follow-up completion is
\* issued; never more than two completions; a request that succeeds leaves an
\* assistant message as the last entry of the history.
C21_TwoRoundProtocol ==
    Chatted =>
        LET tool_calls == resp.input.first.tool_calls IN
        /\ resp.out.completions \in { 1, 2 }
        /\ resp.out.completions = 2 <=> tool_calls # << >>
        /\ resp.out.executed = [k \in 1..Len(tool_calls) |-> tool_calls[k].name]
        /\ Len(SelectSeq(Appended, IsToolMessage)) = Len(tool_calls)
        /\ resp.out.kind = "chat" =>
               Appended[Len(Appended)] = AssistantMessage

-----------------------------------------------------------------------------
(* C22 *)

ChatOps == { "chat", "history", "delete_conversation" }

\* C22: without the key in the environment every call of a chat endpoint
\* fails with the configuration error, and it leaves the conversations, the
\* games and the quizzes as they were at the start of the process.
C22_KeyAbsent ==
    ~GROQ_API_KEY =>
        /\ resp.op \in ChatOps => resp.out.kind = "not_configured"
        /\ conversations = << >> /\ games = << >> /\ mcp_games = << >>
        /\ decimal_games = << >>

-----------------------------------------------------------------------------
(* C23 *)

\* a verify that reported a mismatch is followed by a verify of the same game
VerifiedAgain ==
    /\ Verified /\ resp.out.kind = "wrong"
    /\ Verified' /\ resp'.layer = resp.layer /\ resp'.id = resp.id

\* C23: the verify that follows a verify which reported a mismatch at cursor c
\* finds the game at cursor c and checks its digits from there: the cursor
\* advances by the number of leading digits that are the decimals from c on,
\* so a first digit that is the decimal at c is never refused.
C23_VerifyAfterMismatch ==
    [][ VerifiedAgain =>
            /\ resp'.pre = After
            /\ After'.current_index =
                   After.current_index + MatchCount(After.current_index, Submitted')
            /\ (Submitted' # << >> /\ IndexOk(PI_DECIMALS, After.current_index)
                /\ Submitted'[1] = PyIndex(PI_DECIMALS, After.current_index))
                   => After'.current_index > After.current_index ]_vars

\* a tool-layer game that a mismatch had marked over was verified from
\* cursor 5 and is now at cursor 7
C23_Witness ==
    /\ Verified /\ resp.layer = "mcp"
    /\ resp.pre.is_game_over /\ resp.pre.current_index = 5
    /\ After.current_index = 7 /\ resp.out.kind = "all_correct"

-----------------------------------------------------------------------------
(* C24 *)

OtherLayer(layer) == IF layer = "rest" THEN "mcp" ELSE "rest"

\* what the claim compares of a verify
Reported(out) ==
    IF out.kind \in { "wrong", "all_correct" }
    THEN << out.kind, out.digits_checked, out.correct_count, out.all_correct,
            out.wrong_at_position, out.expected_digit, out.got_digit,
            out.current_score >>
    ELSE << out.kind >>

\* C24: a verify answered by one layer leaves the game in the state, and
\* reports the digits_checked, correct_count, all_correct, wrong_at_position,
\* expected_digit, got_digit and current_score, that the other layer would
\* from the same game with the same input.
C24_LayersAgree ==
    Verified =>
        LET other == Outcome(OtherLayer(resp.layer), resp.pre, resp.input) IN
        /\ other.game = After
        /\ Reported(other.out) = Reported(resp.out)

-----------------------------------------------------------------------------
(* C25 *)

\* the last request asked a registered game, whose cursor is not negative,
\* for a hint
Hinted == resp.op = "hint" /\ resp.found /\ resp.pre.current_index >= 0

\* C25: a hint request with count n on a game with cursor c returns the
\* decimals c+1 .. min(c+n, length), with start_position = c + 1 and count the
\* number of decimals returned, never more than n; with n < 1, or on a
\* complete game, it returns an error or a notice and no decimals; in both
\* layers.
C25_HintWindow ==
    Hinted =>
        LET n == resp.input[1]
            c == resp.pre.current_index IN
        IF n < 1 \/ c >= Len(PI_DECIMALS)
        THEN resp.out.kind \in { "bad_count", "completed" }
        ELSE /\ resp.out.kind = "hint"
             /\ resp.out.hint = SubSeq(PI_DECIMALS, c + 1, Min(c + n, Len(PI_DECIMALS)))
             /\ resp.out.start_position = c + 1
             /\ resp.out.count = Len(resp.out.hint)
             /\ resp.out.count <= n

-----------------------------------------------------------------------------
(* C26 *)

\* the requests that are no check of digits: status, hint, the quiz
\* operations, and the requests answered NotFound, InvalidInput or "no digits"
NoCheck(r) ==
    \/ r.op \in { "status", "hint", "quiz_start", "quiz_check" }
    \/ r.out.kind \in { "not_found", "invalid", "no_digits" }

\* C26: a status or hint request, a request that fails with NotFound,
\* InvalidInput or an empty sequence, and a quiz operation leave every game's
\* cursor and terminal flag, and the registered game ids, as they were.
C26_OnlyChecksMutate ==
    [][ NoCheck(resp') => (games' = games /\ mcp_games' = mcp_games) ]_vars

-----------------------------------------------------------------------------
(* C27 *)

\* the games other than the one the request of this step addresses are
\* registered after the step exactly if they were before, and are as they were
OthersUntouched ==
    \A other \in (DOMAIN games \cup DOMAIN games') \ { resp'.id } :
        /\ other \in DOMAIN games /\ other \in DOMAIN games'
        /\ games'[other] = games[other]

\* a start registers an id that was not registered and changes no game
StartAddsOne ==
    resp'.op = "start" =>
        /\ resp'.id \notin DOMAIN games
        /\ DOMAIN games' = DOMAIN games \cup { resp'.id }
        /\ \A other \in DOMAIN games : games'[other] = games[other]

\* C27: a start, play, verify, hint, status or end addressed to one game id
\* leaves the cursor, the terminal flag and the registration of every other
\* game id as they were, and a start never changes an existing game.
C27_SessionsIsolated == [][ OthersUntouched /\ StartAddsOne ]_vars

\* game 1 is at cursor 2 and still active after game 2 was ended by a wrong
\* digit
C27_Witness ==
    /\ DOMAIN games = { 1, 2 }
    /\ games[1].current_index = 2 /\ ~games[1].is_game_over
    /\ resp.op = "play" /\ resp.id = 2 /\ resp.out.kind = "result"
    /\ games[2].is_game_over

-----------------------------------------------------------------------------
(* C28 *)

\* the last request checked a guess for a registered quiz that had not been
\* answered
QuizOpen == resp.op = "quiz_check" /\ resp.found /\ ~resp.pre.answered

\* C28: a check whose guess is not exactly one decimal digit reports
\* InvalidInput and leaves the quiz unanswered, so that a later valid guess is
\* evaluated; a check of one decimal digit on an unanswered quiz of the REST
\* layer is evaluated and marks the quiz answered, right or wrong.
C28_InvalidGuessKeepsQuiz ==
    QuizOpen =>
        IF resp.input[1] \notin SingleDigits
        THEN /\ resp.out.kind = "bad_guess"
             /\ ~quiz_log[resp.id].answered
             /\ resp.layer = "rest" => ~decimal_games[resp.id].is_done
        ELSE resp.layer = "rest" =>
                 /\ resp.out.kind = "checked"
                 /\ decimal_games[resp.id].is_done

-----------------------------------------------------------------------------
(* C29 *)

\* C29: an id issued for a quiz is NotFound for every game operation, an id
\* issued for a game is NotFound for the quiz check, and a quiz stays
\* registered whatever game is ended.
C29_SeparateNamespaces ==
    /\ (resp.op \in GameOps /\ resp.id \in DOMAIN quiz_log)
           => resp.out.kind = "not_found"
    /\ (resp.op = "quiz_check" /\ resp.id \in 1..next_id
        /\ resp.id \notin DOMAIN quiz_log)
           => resp.out.kind = "not_found"
    /\ \A quiz_id \in DOMAIN quiz_log :
           IF quiz_log[quiz_id].layer = "rest"
           THEN quiz_id \in DOMAIN decimal_games
           ELSE quiz_id \in DOMAIN mcp_games

-----------------------------------------------------------------------------
(* C30 *)

\* C30: the command-line loop calls check_input only on a game that is not
\* over and whose cursor is below the length of the digits, so no call
\* raises; it is left on the first wrong digit, on an exit keyword or when the
\* cursor reaches the length, so that it takes at most (length - first
\* cursor) correct digits; and the completion message is printed exactly when
\* the cursor equals the length once the loop is left.
C30_CliLoop ==
    /\ cli.checks > 0 =>
           /\ ~cli.checked.is_game_over
           /\ cli.checked.current_index < Len(PI_DECIMALS)
    /\ ~cli.raised
    /\ cli.pc = "loop" => loop_condition(cli.game)
    /\ cli.pc = "ended" => ~loop_condition(cli.game)
    /\ cli.game.current_index - cli.entered
           <= Max(0, Len(PI_DECIMALS) - cli.entered)
    /\ cli.pc = "ended" =>
           (cli.congratulated <=> cli.game.current_index = Len(PI_DECIMALS))

-----------------------------------------------------------------------------
(* C31 *)

\* the last pass of Game.play read an input that is no digit and no exit
\* keyword
NoDigitEntered ==
    /\ resp.op = "input"
    /\ resp.input \notin SingleDigits /\ resp.input \notin ExitInputs

\* C31: in Game.play, as in the command-line loops, an input that is no valid
\* digit is answered without "Game Over" and the loop goes on: the game is not
\* ended and its cursor and terminal flag are as they were.
C31_InvalidInputReprompts ==
    NoDigitEntered =>
        /\ resp.out.kind # "game_over"
        /\ cli.pc = "loop"
        /\ cli.game = resp.pre

-----------------------------------------------------------------------------
(* C32 *)

\* the starting-position prompt has read at least one entry
Positioned == resp.op = "position" /\ resp.out.read > 0

\* C32: the starting-position prompt never ends in a failure; it starts play
\* on an entry that is an integer p with 1 <= p <= length, with the cursor at
\* p - 1; it asks again after any other entry that is no exit keyword; and
\* on an exit keyword it quits with no digit check performed.
C32_PositionPrompt ==
    Positioned =>
        LET last == resp.input[resp.out.read] IN
        /\ resp.out.kind # "exception" /\ ~cli.raised
        /\ last \in ExitInputs => (cli.pc = "ended" /\ cli.checks = 0)
        /\ last \notin ExitInputs =>
               IF IntOk(last) /\ py_int(last) \in 1..Len(PI_DECIMALS)
               THEN /\ resp.out.kind = "play"
                    /\ cli.entered = py_int(last) - 1
               ELSE resp.out.kind = "waiting"

-----------------------------------------------------------------------------
(* C33 *)

\* the step is a chat request that a completion of the provider failed
UpstreamFailed ==
    /\ resp'.op = "chat" /\ resp'.out.kind = "error"
    /\ \/ resp'.input.first.kind = "error"
       \/ resp'.out.completions = 2 /\ resp'.input.final.kind = "error"

\* C33: a chat request that fails on an error of the provider is reported as
\* an error and leaves the conversations and the games as they were: no new
\* conversation, no user or tool-call message left behind, no change of a
\* game by the tools that ran before the failure.
C33_UpstreamErrorLeavesNoTrace ==
    [][UpstreamFailed =>
           /\ conversations' = conversations
           /\ mcp_games' = mcp_games /\ next_id' = next_id]_vars

-----------------------------------------------------------------------------
(* C34 *)

\* the last request started a game
Started == resp.op = "start"

\* the mode it asked for is the custom mode of its layer
CustomAsked ==
    IF resp.layer = "rest" THEN resp.input[1] = 2 ELSE resp.input[1] = "custom"

\* C34: a start leaves a game that is not over, with the cursor at
\* start_position - 1 in custom mode and at 0 in every other mode whatever
\* the start_position; the response's current_position is the cursor + 1.
C34_StartCursor ==
    Started =>
        /\ ~After.is_game_over
        /\ After.current_index =
               IF CustomAsked THEN resp.input[2] - 1 ELSE 0
        /\ resp.out.current_position = After.current_index + 1
        /\ resp.layer = "rest" =>
               resp.out.mode = IF CustomAsked THEN "custom" ELSE "standard"

\* a start in a mode that is not custom, with a start_position, at cursor 0
C34_Witness ==
    /\ Started /\ ~CustomAsked /\ resp.input[2] = 5
    /\ After.current_index = 0 /\ resp.out.current_position = 1

====
